---- MODULE Spec2Model ----
(***************************************************************************)
(* The three tools of the wiki-mcp server (src/main.py):                   *)
(*   fetch_wikipedia_summary, fetch_instructions and                       *)
(*   personalized_insurance_quote.                                         *)
(*                                                                         *)
(* A Python string is a sequence of tokens.  The literals of an f-string   *)
(* are one token each, a title (link, option) is one token, "\n" and "\r"  *)
(* are tokens of their own, so that formatting is concatenation and        *)
(* reading a result back means splitting it at the newline tokens.         *)
(***************************************************************************)
EXTENDS Integers, Sequences, FiniteSets, TLC

VARIABLES pc, tool, topic, summary, page, exc, calls, response,
          headers, zip_code, coverage_level, prompt_name, files

vars == <<pc, tool, topic, summary, page, exc, calls, response,
          headers, zip_code, coverage_level, prompt_name, files>>

(***************************************************************************)
(* Bounds of the model and constants of the program.                       *)
(***************************************************************************)
MaxLinks == 12
MaxOptions == 12
MaxHeaderLen == 3

LinkLimit == 10
OptionLimit == 10

NL == "\n"
CR == "\r"

(***************************************************************************)
(* String helpers.                                                         *)
(***************************************************************************)
Min(a, b) == IF a < b THEN a ELSE b

\* s[:n]
Take(s, n) == SubSeq(s, 1, Min(n, Len(s)))

\* s[n:] (0-based n)
Drop(s, n) == SubSeq(s, n + 1, Len(s))

\* s.startswith(p)
StartsWith(s, p) == Len(p) <= Len(s) /\ SubSeq(s, 1, Len(p)) = p

EndsWith(s, p) == Len(p) <= Len(s) /\ SubSeq(s, Len(s) - Len(p) + 1, Len(s)) = p

Contains(s, p) == \E i \in 0..(Len(s) - Len(p)) : SubSeq(s, i + 1, i + Len(p)) = p

RECURSIVE Join(_, _)
\* sep.join(items), every item one token
Join(sep, items) ==
  IF items = <<>> THEN <<>>
  ELSE IF Len(items) = 1 THEN <<items[1]>>
  ELSE <<items[1], sep>> \o Join(sep, Tail(items))

RECURSIVE SplitAt(_, _, _)
SplitAt(s, sep, cur) ==
  IF s = <<>> THEN <<cur>>
  ELSE IF Head(s) = sep THEN <<cur>> \o SplitAt(Tail(s), sep, <<>>)
  ELSE SplitAt(Tail(s), sep, Append(cur, Head(s)))

\* s.split("\n"): the pieces between the newline tokens
Lines(s) == SplitAt(s, NL, <<>>)

RECURSIVE Flatten(_)
Flatten(ls) == IF ls = <<>> THEN <<>>
               ELSE IF Len(ls) = 1 THEN ls[1]
               ELSE ls[1] \o <<NL>> \o Flatten(Tail(ls))

(***************************************************************************)
(* Values of the external lookup service.                                  *)
(***************************************************************************)
Topics == { <<"Mercury">>, <<"Python", " ", "(programming language)">> }

Summaries == { <<>>, <<"Sentence one.">>,
               <<"Sentence one.", NL, "Sentence two.">> }

LinkPool == <<"ABC", "Ada", "ALGOL", "Bash", "C", "C++", "Dylan", "Eiffel",
              "Go", "Haskell", "Icon", "Java", "Lisp", "ML", "Perl", "Ruby">>

LinkLists == { SubSeq(LinkPool, a, b) : a \in 1..2, b \in 0..MaxLinks }
             \cup { <<LinkPool[1], LinkPool[1]>>, <<LinkPool[2], LinkPool[1]>> }

OptionPool == <<"Mercury (planet)", "Mercury (element)", "Mercury (mythology)",
                "Mercury Records", "Mercury (automobile)", "Project Mercury",
                "Mercury, Nevada", "Freddie Mercury", "Mercury (film)",
                "Mercury Prize", "Mercury (satellite)", "HMS Mercury",
                "Mercury Theatre", "Mercury Bay", "Mercury Drug", "Mercury News">>

OptionLists == { SubSeq(OptionPool, a, b) : a \in 1..2, b \in 0..MaxOptions }

ErrorTexts == { <<"HTTP request timed out">>, <<"Connection", " ", "reset">> }

NoExc == [type |-> "none", options |-> <<>>, text |-> <<>>]

\* what a lookup call can raise
Exceptions ==
  { [type |-> "DisambiguationError", options |-> o, text |-> <<>>] : o \in OptionLists }
  \cup { [type |-> "PageError", options |-> <<>>, text |-> <<>>] }
  \cup { [type |-> t, options |-> <<>>, text |-> x] :
           t \in {"HTTPTimeoutError", "ConnectionError"}, x \in ErrorTexts }

NoPage == [links |-> <<>>]

(***************************************************************************)
(* Responses of a tool.                                                    *)
(***************************************************************************)
NoResponse == [kind |-> "pending", type |-> "none", text |-> <<>>,
               isError |-> FALSE, meta |-> <<>>]

ReturnStr(s) == [kind |-> "return", type |-> "str", text |-> s,
                 isError |-> FALSE, meta |-> <<>>]

Raise(t, s) == [kind |-> "raise", type |-> t, text |-> s,
                isError |-> FALSE, meta |-> <<>>]

(***************************************************************************)
(* fetch_wikipedia_summary                                                 *)
(***************************************************************************)
RECURSIVE AppendLinks_NoDash(_, _)
\* a loop body that writes the link without its dash
AppendLinks_NoDash(result, links) ==
  IF links = <<>> THEN result
  ELSE AppendLinks_NoDash(result \o <<Head(links), NL>>, Tail(links))

RECURSIVE AppendLinks(_, _)
\* for link in ...: result += f"- {link}\n"
AppendLinks(result, links) ==
  IF links = <<>> THEN result
  ELSE AppendLinks(result \o <<"- ", Head(links), NL>>, Tail(links))

\* a report that lists every link of the page
FormatResult_NoLimit(t, s, p) ==
  AppendLinks(<<"Summary for '">> \o t \o <<"':", NL, NL>> \o s \o <<NL, NL, "Links:", NL>>,
              p.links)

\* lines 125-129
FormatResult(t, s, p) ==
  AppendLinks(<<"Summary for '">> \o t \o <<"':", NL, NL>> \o s \o <<NL, NL, "Links:", NL>>,
              Take(p.links, LinkLimit))

\* except clauses that list every reported option
HandleException_AllOptions(t, e) ==
  IF e.type = "DisambiguationError"
    THEN ReturnStr(<<"Topic '">> \o t \o <<"' is ambiguous. Possible options:", NL>>
                   \o Join(NL, e.options))
  ELSE IF e.type = "PageError"
    THEN ReturnStr(<<"No Wikipedia page found for topic '">> \o t \o <<"'.">>)
  ELSE Raise("Exception", <<"Error fetching Wikipedia data: ">> \o e.text)

\* except clauses without the one for PageError
HandleException_NoPageError(t, e) ==
  IF e.type = "DisambiguationError"
    THEN ReturnStr(<<"Topic '">> \o t \o <<"' is ambiguous. Possible options:", NL>>
                   \o Join(NL, Take(e.options, OptionLimit)))
  ELSE Raise("Exception", <<"Error fetching Wikipedia data: ">> \o e.text)

\* except clauses whose last one returns the message instead of raising it
HandleException_OtherReturned(t, e) ==
  IF e.type = "DisambiguationError"
    THEN ReturnStr(<<"Topic '">> \o t \o <<"' is ambiguous. Possible options:", NL>>
                   \o Join(NL, Take(e.options, OptionLimit)))
  ELSE IF e.type = "PageError"
    THEN ReturnStr(<<"No Wikipedia page found for topic '">> \o t \o <<"'.">>)
  ELSE ReturnStr(<<"Error fetching Wikipedia data: ">> \o e.text)

\* the except clauses, lines 131-136
HandleException(t, e) ==
  IF e.type = "DisambiguationError"
    THEN ReturnStr(<<"Topic '">> \o t \o <<"' is ambiguous. Possible options:", NL>>
                   \o Join(NL, Take(e.options, OptionLimit)))
  ELSE IF e.type = "PageError"
    THEN ReturnStr(<<"No Wikipedia page found for topic '">> \o t \o <<"'.">>)
  ELSE Raise("Exception", <<"Error fetching Wikipedia data: ">> \o e.text)

\* the locals of an invocation do not outlive it
Reset ==
  /\ summary' = <<>>
  /\ page' = NoPage
  /\ exc' = NoExc
  /\ calls' = <<>>

\* mcp.current_request_headers.get() is None or a mapping of field names to
\* field values
NoHeaders == [present |-> FALSE, map |-> <<>>]

\* the server takes one request at a time
Ready == pc = "idle"

\* a client calls the tool
CallWiki(t) ==
  /\ Ready
  /\ pc' = "summary"
  /\ tool' = "fetch_wikipedia_summary"
  /\ topic' = t
  /\ Reset
  /\ response' = NoResponse
  /\ headers' = NoHeaders
  /\ zip_code' = ""
  /\ coverage_level' = ""
  /\ prompt_name' = <<>>
  /\ UNCHANGED files

\* a summary call made for the first word of the topic
SummaryReturns_FirstWord(s) ==
  /\ pc = "summary"
  /\ calls' = Append(calls, [fn |-> "summary", topic |-> Take(topic, 1), ok |-> TRUE])
  /\ summary' = s
  /\ pc' = "page"
  /\ UNCHANGED <<tool, topic, page, exc, response,
                 headers, zip_code, coverage_level, prompt_name, files>>

\* line 119, the call returns
SummaryReturns(s) ==
  /\ pc = "summary"
  /\ calls' = Append(calls, [fn |-> "summary", topic |-> topic, ok |-> TRUE])
  /\ summary' = s
  /\ pc' = "page"
  /\ UNCHANGED <<tool, topic, page, exc, response,
                 headers, zip_code, coverage_level, prompt_name, files>>

\* line 119, the call raises
SummaryRaises(e) ==
  /\ pc = "summary"
  /\ calls' = Append(calls, [fn |-> "summary", topic |-> topic, ok |-> FALSE])
  /\ exc' = e
  /\ response' = HandleException(topic, e)
  /\ pc' = "done"
  /\ UNCHANGED <<tool, topic, summary, page,
                 headers, zip_code, coverage_level, prompt_name, files>>

\* line 122, the call returns
PageReturns(p) ==
  /\ pc = "page"
  /\ calls' = Append(calls, [fn |-> "page", topic |-> topic, ok |-> TRUE])
  /\ page' = p
  /\ pc' = "format"
  /\ UNCHANGED <<tool, topic, summary, exc, response,
                 headers, zip_code, coverage_level, prompt_name, files>>

\* a page call whose failure returns what was fetched so far
PageRaises_Partial(e) ==
  /\ pc = "page"
  /\ calls' = Append(calls, [fn |-> "page", topic |-> topic, ok |-> FALSE])
  /\ exc' = e
  /\ response' = ReturnStr(<<"Summary for '">> \o topic \o <<"':", NL, NL>> \o summary)
  /\ pc' = "done"
  /\ UNCHANGED <<tool, topic, summary, page,
                 headers, zip_code, coverage_level, prompt_name, files>>

\* line 122, the call raises
PageRaises(e) ==
  /\ pc = "page"
  /\ calls' = Append(calls, [fn |-> "page", topic |-> topic, ok |-> FALSE])
  /\ exc' = e
  /\ response' = HandleException(topic, e)
  /\ pc' = "done"
  /\ UNCHANGED <<tool, topic, summary, page,
                 headers, zip_code, coverage_level, prompt_name, files>>

\* lines 125-129
FormatAndReturn ==
  /\ pc = "format"
  /\ response' = ReturnStr(FormatResult(topic, summary, page))
  /\ pc' = "done"
  /\ UNCHANGED <<tool, topic, summary, page, exc, calls,
                 headers, zip_code, coverage_level, prompt_name, files>>

(***************************************************************************)
(* personalized_insurance_quote                                            *)
(***************************************************************************)
HeaderChars == {"Bearer", "bearer", "Basic", " ", "abc123"}

\* BoundedSeq(S, n): the sequences over S of length at most n
BoundedSeq(S, n) == UNION { [1..k -> S] : k \in 0..n }

\* An HTTP field value reaches the server without leading or trailing
\* whitespace (RFC 9110, 5.5); it may be empty.
HeaderValues == { v \in BoundedSeq(HeaderChars, MaxHeaderLen) :
                    v = <<>> \/ (v[1] # " " /\ v[Len(v)] # " ") }

HeaderMaps ==
  { <<>> }
  \cup { [k \in {"Accept"} |-> <<"application/json">>] }
  \cup { [k \in {"Authorization"} |-> v] : v \in HeaderValues }
  \cup { [k \in {"Accept", "Authorization"} |->
            IF k = "Accept" THEN <<"application/json">> ELSE v] : v \in HeaderValues }

RequestHeaders == { NoHeaders } \cup { [present |-> TRUE, map |-> m] : m \in HeaderMaps }

ZipCodes == {"94105", "10001"}

CoverageLevels == {"basic", "premium"}

\* value of the AUTH0_DOMAIN environment variable, line 19
auth0_domain == "tenant.auth0.com"

\* lines 83-96
Challenge ==
  [kind |-> "return", type |-> "dict",
   text |-> <<"Authentication required: no access token provided.">>,
   isError |-> TRUE,
   meta |-> <<"mcp/www_authenticate",
              "Bearer resource_metadata=\"https://", auth0_domain,
              "/.well-known/oauth-protected-resource\", ",
              "error=\"invalid_token\", ",
              "error_description=\"You need to login to continue\"">>]

\* lines 100-103
Quote(z, c) ==
  ReturnStr(<<"Personalized insurance quote for ", z, " with ", c, " coverage: ",
              "$123/month (example data).">>)

\* a check that accepts any non-empty Authorization value
personalized_insurance_quote_AnyValue(h, z, c) ==
  LET hasToken == h.present /\ h.map # <<>> /\ "Authorization" \in DOMAIN h.map
      token == IF hasToken THEN h.map["Authorization"] ELSE <<>>
  IN IF ~hasToken \/ token = <<>>
       THEN Challenge
       ELSE Quote(z, c)

\* lines 78-103
personalized_insurance_quote(h, z, c) ==
  LET hasToken == h.present /\ h.map # <<>> /\ "Authorization" \in DOMAIN h.map
      token == IF hasToken THEN h.map["Authorization"] ELSE <<>>
  IN IF ~hasToken \/ token = <<>> \/ ~StartsWith(token, <<"Bearer", " ">>)
       THEN Challenge
       ELSE Quote(z, c)

CallQuote(h, z, c) ==
  /\ Ready
  /\ tool' = "personalized_insurance_quote"
  /\ headers' = h
  /\ zip_code' = z
  /\ coverage_level' = c
  /\ Reset
  /\ response' = personalized_insurance_quote(h, z, c)
  /\ pc' = "done"
  /\ topic' = <<>>
  /\ prompt_name' = <<>>
  /\ UNCHANGED files

(***************************************************************************)
(* fetch_instructions                                                      *)
(*                                                                         *)
(* A path is a string; "/" is a token of its own.  The file system maps    *)
(* the resolved path of a file, the sequence of its components, to the     *)
(* bytes of the file.                                                      *)
(***************************************************************************)
\* os.path.dirname(__file__), line 152
script_dir == <<"/", "srv", "/", "app">>

\* os.path.join(a, b)
PathJoin(a, b) ==
  IF StartsWith(b, <<"/">>) THEN b
  ELSE IF a = <<>> \/ EndsWith(a, <<"/">>) THEN a \o b
  ELSE a \o <<"/">> \o b

Components(path) == SplitAt(path, "/", <<>>)

RECURSIVE Prefixes(_)
Prefixes(p) == IF p = <<>> THEN {<<>>} ELSE {p} \cup Prefixes(SubSeq(p, 1, Len(p) - 1))

\* the directories of a file system
Dirs(fs) == UNION { Prefixes(SubSeq(p, 1, Len(p) - 1)) : p \in DOMAIN fs }

RECURSIVE Walk(_, _, _)
\* path resolution: the directory reached from cur by the components cs,
\* or <<<<"ENOENT">>>> when a component names no directory
Walk(fs, cur, cs) ==
  IF cs = <<>> THEN cur
  ELSE IF Head(cs) = <<>> \/ Head(cs) = <<".">> THEN Walk(fs, cur, Tail(cs))
  ELSE IF Head(cs) = <<"..">>
    THEN Walk(fs, IF cur = <<>> THEN cur ELSE SubSeq(cur, 1, Len(cur) - 1), Tail(cs))
  ELSE IF Append(cur, Head(cs)) \in Dirs(fs)
    THEN Walk(fs, Append(cur, Head(cs)), Tail(cs))
  ELSE << <<"ENOENT">> >>

\* the file an absolute path names, after resolution
Resolve(fs, path) ==
  LET cs == Components(path)
      dir == Walk(fs, <<>>, SubSeq(cs, 1, Len(cs) - 1))
  IN IF dir = << <<"ENOENT">> >> THEN dir ELSE Append(dir, cs[Len(cs)])

RECURSIVE UniversalNewlines(_)
\* text mode of open(path, "r"): "\r\n" and "\r" are read as "\n"
UniversalNewlines(s) ==
  IF s = <<>> THEN <<>>
  ELSE IF Head(s) = CR
    THEN IF Len(s) > 1 /\ s[2] = NL
           THEN <<NL>> \o UniversalNewlines(Drop(s, 2))
           ELSE <<NL>> \o UniversalNewlines(Tail(s))
  ELSE <<Head(s)>> \o UniversalNewlines(Tail(s))

\* lines 152-153
prompt_path(name) == PathJoin(PathJoin(script_dir, <<"prompts">>), name \o <<".md">>)

\* lines 152-155
fetch_instructions(name, fs) ==
  LET file == Resolve(fs, prompt_path(name))
  IN IF file \in DOMAIN fs THEN ReturnStr(UniversalNewlines(fs[file]))
     ELSE IF file \in Dirs(fs) THEN Raise("IsADirectoryError", <<>>)
     ELSE Raise("FileNotFoundError", <<>>)

PromptsDir == << <<"srv">>, <<"app">>, <<"prompts">> >>

FileSystems ==
  { ( Append(PromptsDir, <<"server_instructions", ".md">>)
        :> <<"# Instructions", NL, "Use the tools.", NL>> )
    @@ ( Append(PromptsDir, <<"fetch_wikipedia_summary", ".md">>)
        :> <<"Give a topic.", CR, NL, "Read the summary.", CR, NL>> )
    @@ ( << <<"srv">>, <<"app">>, <<"notes", ".md">> >> :> <<"deployment notes", NL>> )
    @@ ( << <<"etc">>, <<"motd", ".md">> >> :> <<"welcome", NL>> ),
    ( Append(PromptsDir, <<"server_instructions", ".md">>)
        :> <<"# Instructions", NL>> )
    @@ ( PromptsDir \o << <<"drafts">>, <<"wip", ".md">> >> :> <<"draft", NL>> )
    @@ ( << <<"srv">>, <<"app">>, <<"notes", ".md">> >> :> <<"other notes", NL>> ) }

PromptNames ==
  { <<"server_instructions">>, <<"fetch_wikipedia_summary">>, <<"does_not_exist">>,
    <<"drafts", "/", "wip">>, <<"drafts">>,
    <<"drafts", "/", "..", "/", "server_instructions">>,
    <<"..", "/", "notes">>, <<"/", "etc", "/", "motd">>, <<"..">> }

CallInstructions(name) ==
  /\ Ready
  /\ tool' = "fetch_instructions"
  /\ prompt_name' = name
  /\ Reset
  /\ response' = fetch_instructions(name, files)
  /\ pc' = "done"
  /\ topic' = <<>>
  /\ headers' = NoHeaders
  /\ zip_code' = ""
  /\ coverage_level' = ""
  /\ UNCHANGED files

(***************************************************************************)
(* The server.                                                             *)
(***************************************************************************)
\* the response goes to the client and the server waits for the next request
Finish ==
  /\ pc = "done"
  /\ pc' = "idle"
  /\ tool' = "none"
  /\ topic' = <<>>
  /\ Reset
  /\ response' = NoResponse
  /\ headers' = NoHeaders
  /\ zip_code' = ""
  /\ coverage_level' = ""
  /\ prompt_name' = <<>>
  /\ UNCHANGED files

Init ==
  /\ pc = "idle"
  /\ tool = "none"
  /\ topic = <<>>
  /\ summary = <<>>
  /\ page = NoPage
  /\ exc = NoExc
  /\ calls = <<>>
  /\ response = NoResponse
  /\ headers = NoHeaders
  /\ zip_code = ""
  /\ coverage_level = ""
  /\ prompt_name = <<>>
  /\ files \in FileSystems

Next ==
  \/ \E t \in Topics : CallWiki(t)
  \/ \E s \in Summaries : SummaryReturns(s)
  \/ \E e \in Exceptions : SummaryRaises(e)
  \/ \E l \in LinkLists : PageReturns([links |-> l])
  \/ \E e \in Exceptions : PageRaises(e)
  \/ FormatAndReturn
  \/ \E h \in RequestHeaders, z \in ZipCodes, c \in CoverageLevels : CallQuote(h, z, c)
  \/ \E n \in PromptNames : CallInstructions(n)
  \/ Finish

Spec == Init /\ [][Next]_vars

TypeOK ==
  /\ pc \in {"idle", "summary", "page", "format", "done"}
  /\ tool \in {"none", "fetch_wikipedia_summary", "personalized_insurance_quote",
               "fetch_instructions"}
  /\ response.kind \in {"pending", "return", "raise"}
  /\ (pc = "done") <=> (response.kind # "pending")
  /\ (pc = "idle") <=> (tool = "none")

(***************************************************************************)
(* Reading a response back.                                                *)
(***************************************************************************)
WikiDone == pc = "done" /\ tool = "fetch_wikipedia_summary"

\* both lookups succeeded
WikiSuccess == WikiDone /\ exc = NoExc

HeaderLine(t) == <<"Summary for '">> \o t \o <<"':">>

AmbiguousLine(t) == <<"Topic '">> \o t \o <<"' is ambiguous. Possible options:">>

NotFoundText(t) == <<"No Wikipedia page found for topic '">> \o t \o <<"'.">>

HasLinksLine(text) == \E k \in 1..Len(Lines(text)) : Lines(text)[k] = <<"Links:">>

\* the index of the line that opens the Links section (0: there is none)
LinksLineAt(ls) ==
  IF \E k \in 1..Len(ls) : ls[k] = <<"Links:">>
    THEN CHOOSE k \in 1..Len(ls) :
           ls[k] = <<"Links:">> /\ \A j \in (k + 1)..Len(ls) : ls[j] # <<"Links:">>
    ELSE 0

\* the lines after the Links line, without the empty piece behind the last newline
EntryLines(text) ==
  LET ls == Lines(text)
      k == LinksLineAt(ls)
  IN IF k = 0 THEN <<>> ELSE SubSeq(ls, k + 1, Len(ls) - 1)

\* the summary block: what stands between the blank line after the header
\* and the blank line before the Links line
SummaryBlock(text) ==
  LET ls == Lines(text)
      k == LinksLineAt(ls)
  IN IF k < 5 THEN <<>> ELSE Flatten(SubSeq(ls, 3, k - 2))

\* header line, blank, summary block, blank, "Links:", dash entries, final newline
IsReport(text, t) ==
  LET ls == Lines(text)
      k == LinksLineAt(ls)
  IN /\ k >= 5
     /\ ls[1] = HeaderLine(t)
     /\ ls[2] = <<>>
     /\ ls[k - 1] = <<>>
     /\ ls[Len(ls)] = <<>>
     /\ Len(EntryLines(text)) <= 10
     /\ \A i \in 1..Len(EntryLines(text)) :
          /\ Len(EntryLines(text)[i]) = 2
          /\ EntryLines(text)[i][1] = "- "

\* the ambiguous-options message for the reported options, complete
IsAmbiguousMessage(text, t, options) ==
  LET ls == Lines(text)
      n == IF Len(options) < 10 THEN Len(options) ELSE 10
  IN /\ ls[1] = AmbiguousLine(t)
     /\ n <= 10
     /\ IF n = 0 THEN ls = <<AmbiguousLine(t), <<>> >>
        ELSE /\ Len(ls) = n + 1
             /\ \A i \in 1..n : ls[i + 1] = <<options[i]>>

(***************************************************************************)
(* C1                                                                      *)
(***************************************************************************)
\* C1 as stated: when both lookups succeed the result has the header line
\* naming the topic, a non-empty summary block and a Links section of at most
\* 10 dash-prefixed lines.
C1_NonEmptySummaryBlock ==
  WikiSuccess =>
    /\ response.kind = "return" /\ response.type = "str"
    /\ IsReport(response.text, topic)
    /\ SummaryBlock(response.text) # <<>>

\* C1 amended: when both lookups succeed the result has the header line naming
\* the topic, a summary block that is the text the summary lookup returned
\* (non-empty exactly when that text is) and a Links section of at most 10
\* dash-prefixed lines.
C1_ReportShape ==
  WikiSuccess =>
    /\ response.kind = "return" /\ response.type = "str"
    /\ IsReport(response.text, topic)
    /\ SummaryBlock(response.text) = summary

C1_Witness ==
  WikiSuccess /\ Len(page.links) > LinkLimit /\ Len(EntryLines(response.text)) = 10

(***************************************************************************)
(* C2                                                                      *)
(***************************************************************************)
\* C2: the entries of the Links section are the first min(10, n) links of the
\* page, verbatim and in order; at least 10 links give exactly 10 entries and
\* no later link appears in the result.
C2_FirstTenLinks ==
  WikiSuccess =>
    LET es == EntryLines(response.text)
        n == Len(page.links)
    IN /\ Len(es) = (IF n < 10 THEN n ELSE 10)
       /\ \A i \in 1..Len(es) : es[i] = <<"- ", page.links[i]>>
       /\ (n >= 10 => Len(es) = 10)
       /\ \A j \in 11..n : ~Contains(response.text, <<page.links[j]>>)

C2_Witness ==
  WikiSuccess /\ Len(page.links) > 10 /\ page.links[1] # LinkPool[1]

(***************************************************************************)
(* C3                                                                      *)
(***************************************************************************)
Ambiguous == WikiDone /\ exc.type = "DisambiguationError"

\* C3: when a lookup call reports the topic ambiguous the tool returns a string
\* that begins with the ambiguous line for the topic, followed by the first 10
\* reported options in order, one per line, and holds neither a Links section
\* nor the summary text.
C3_AmbiguousMessage ==
  Ambiguous =>
    /\ response.kind = "return" /\ response.type = "str"
    /\ StartsWith(response.text, AmbiguousLine(topic))
    /\ IsAmbiguousMessage(response.text, topic, exc.options)
    /\ ~HasLinksLine(response.text)
    /\ ~Contains(response.text, <<"Links:">>)
    /\ (summary # <<>> => ~Contains(response.text, summary))
    /\ \A j \in 11..Len(exc.options) : ~Contains(response.text, <<exc.options[j]>>)

C3_Witness ==
  Ambiguous /\ Len(calls) = 2 /\ summary # <<>> /\ Len(exc.options) > OptionLimit

(***************************************************************************)
(* C4                                                                      *)
(***************************************************************************)
NotFound == WikiDone /\ exc.type = "PageError"

\* C4: when a lookup call reports that no page exists the tool returns exactly
\* the not-found message naming the topic.
C4_NotFoundMessage ==
  NotFound =>
    /\ response.kind = "return" /\ response.type = "str"
    /\ response.text = NotFoundText(topic)

C4_Witness == NotFound /\ Len(calls) = 2 /\ Len(topic) > 1

(***************************************************************************)
(* C5                                                                      *)
(***************************************************************************)
OtherFailure ==
  WikiDone /\ exc.type \notin {"none", "DisambiguationError", "PageError"}

\* C5: any other failure of a lookup call is raised to the caller as a generic
\* exception, never returned, and the message carries the text of the
\* original error unchanged.
C5_OtherFailureRaised ==
  OtherFailure =>
    /\ response.kind = "raise"
    /\ response.type = "Exception"
    /\ EndsWith(response.text, exc.text)
    /\ Len(response.text) = Len(exc.text) + 1

C5_Witness == OtherFailure /\ Len(calls) = 2 /\ Len(exc.text) > 1

(***************************************************************************)
(* C6                                                                      *)
(***************************************************************************)
InstructionsDone == pc = "done" /\ tool = "fetch_instructions"

\* the file that the string "<script_dir>/prompts/<name>.md" names
PromptResource(fs, name) ==
  Resolve(fs, script_dir \o <<"/", "prompts", "/">> \o name \o <<".md">>)

\* C6: fetch_instructions(name) returns the contents of prompts/<name>.md
\* verbatim when that resource exists and fails with the resource-absent
\* error when it does not; the file system is as it was.
C6_VerbatimResource ==
  InstructionsDone =>
    IF PromptResource(files, prompt_name) \in DOMAIN files
      THEN /\ response.kind = "return"
           /\ response.text = files[PromptResource(files, prompt_name)]
      ELSE /\ response.kind = "raise"
           /\ response.type = "FileNotFoundError"

(***************************************************************************)
(* C7                                                                      *)
(***************************************************************************)
QuoteDone == pc = "done" /\ tool = "personalized_insurance_quote"

\* the request carries an Authorization value that holds a bearer token:
\* the scheme, a space and a credential
HoldsBearerToken(h) ==
  /\ h.present
  /\ "Authorization" \in DOMAIN h.map
  /\ LET v == h.map["Authorization"]
     IN /\ Len(v) >= 3
        /\ v[1] = "Bearer"
        /\ v[2] = " "
        /\ \E i \in 3..Len(v) : v[i] # " "

IsQuote(r) ==
  /\ r.kind = "return" /\ r.type = "str" /\ ~r.isError
  /\ Len(r.text) > 0 /\ r.text[1] = "Personalized insurance quote for "

IsChallenge(r) ==
  /\ r.kind = "return" /\ r.type = "dict" /\ r.isError
  /\ Len(r.meta) > 0 /\ r.meta[1] = "mcp/www_authenticate"

C8_AlwaysTwoCalls ==
  WikiDone =>
    calls = << [fn |-> "summary", topic |-> topic, ok |-> calls[1].ok],
               [fn |-> "page", topic |-> topic, ok |-> calls[Len(calls)].ok] >>

\* what the invocation has called so far is in order, for the unmodified topic,
\* and the page call follows a summary call that succeeded
CallsInOrder ==
  /\ Len(calls) <= 2
  /\ \A i \in 1..Len(calls) : calls[i].topic = topic
  /\ (Len(calls) >= 1 => calls[1].fn = "summary")
  /\ (Len(calls) = 2 => calls[2].fn = "page" /\ calls[1].ok)

\* C8 amended: every invocation makes the summary call first and, only when
\* that call succeeds, the page call, both for the unmodified topic, before it
\* responds: two calls when the summary call succeeds, one when it fails; no
\* step of the invocation changes the file system.
C8_CallsBeforeResponse ==
  /\ [](/\ CallsInOrder
        /\ (response.kind # "pending" => pc = "done")
        /\ (tool # "fetch_wikipedia_summary" => calls = <<>>)
        /\ (WikiDone => /\ Len(calls) >= 1
                        /\ (calls[1].ok => Len(calls) = 2)
                        /\ (~calls[1].ok => Len(calls) = 1)))
  /\ [][files' = files]_vars

C8_Witness == WikiDone /\ Len(calls) = 1 /\ ~calls[1].ok /\ response.kind = "raise"

(***************************************************************************)
(* C9                                                                      *)
(***************************************************************************)
Count(fn) == Cardinality({ i \in 1..Len(calls) : calls[i].fn = fn })

B2N(b) == IF b THEN 1 ELSE 0

\* C9: the outcome of an invocation is exactly one of the complete report, the
\* complete ambiguous message, the complete not-found message or a raised
\* error; a header or summary never comes back without the Links section and
\* each lookup call is issued at most once.
C9_CompleteOrRaised ==
  /\ Count("summary") <= 1
  /\ Count("page") <= 1
  /\ WikiDone =>
       /\ B2N(response.kind = "return" /\ IsReport(response.text, topic)
                /\ SummaryBlock(response.text) = summary)
          + B2N(response.kind = "return"
                  /\ IsAmbiguousMessage(response.text, topic, exc.options))
          + B2N(response.kind = "return" /\ response.text = NotFoundText(topic))
          + B2N(response.kind = "raise") = 1
       /\ (response.kind = "return" /\ ~HasLinksLine(response.text) =>
             /\ ~StartsWith(response.text, <<"Summary for '">>)
             /\ (summary # <<>> => ~Contains(response.text, summary)))

C9_Witness ==
  /\ WikiDone /\ Len(calls) = 2 /\ calls[1].ok /\ ~calls[2].ok
  /\ summary # <<>> /\ response.kind = "return"

(***************************************************************************)
(* C10                                                                     *)
(***************************************************************************)
InsidePrompts(file) == Len(file) > Len(PromptsDir) /\ StartsWith(file, PromptsDir)

\* C10: whatever the name, the file that fetch_instructions returns lies inside
\* the prompts directory next to the script.
C10_StaysInsidePrompts ==
  InstructionsDone /\ response.kind = "return" =>
    /\ InsidePrompts(Resolve(files, prompt_path(prompt_name)))
    /\ \E f \in DOMAIN files :
         InsidePrompts(f) /\ response.text = UniversalNewlines(files[f])

====
